---- MODULE Spec2Model ----
(***************************************************************************)
(* The weather service of the WeatherNow backend (services/weather/        *)
(* weatherService): the single-slot cache weatherCache, fetchWeatherData   *)
(* with its fallback to the cache, getCachedWeatherData, hasCachedData,    *)
(* clearCache and convertTemperature.                                      *)
(*                                                                         *)
(* Units.  Temperatures are integers counting hundredths of a degree, so   *)
(* 21.35 degrees is 2135 and the range limits -90 and 60 are -9000 and     *)
(* 6000.  A value "with one decimal" is a multiple of 10.  Times are       *)
(* integers counting milliseconds, as Date.getTime() does.                 *)
(*                                                                         *)
(* Node runs one continuation at a time, so every action below is one      *)
(* uninterrupted run of code between two await points.                     *)
(***************************************************************************)
EXTENDS Integers, FiniteSets, Sequences, TLC

VARIABLES
    weatherCache,   \* the module-level slot: null or a CachedWeatherData
    now,            \* the wall clock read by new Date()
    calls,          \* the fetchWeatherData invocations (and the request handler
                    \* awaiting each, if any) and where each stands
    ret             \* what the operation that ran in the last step gave back

vars == <<weatherCache, now, calls, ret>>

-----------------------------------------------------------------------------
(* Bounds of the model *)

\* fetchWeatherData invocations that may be in flight at the same time
NumCalls == 2

\* convertTemperature is checked on every value from -ConvLow to ConvHigh
\* hundredths of a degree
ConvLow == 9000
ConvHigh == 10000

CallIds == 1..NumCalls

-----------------------------------------------------------------------------
(* Values *)

\* the empty slot (let weatherCache: CachedWeatherData | null = null)
null == [isNull |-> TRUE]

Units == {"celsius", "fahrenheit"}

\* locations a caller asks for
Locations == {"London", "Paris"}

oneHour == 60 * 60 * 1000
twentyFourHours == 24 * 60 * 60 * 1000

\* the instants the clock is observed at: they put a cache age inside each
\* band and on both sides of each threshold
Instants ==
    {0, oneHour \div 2, oneHour, oneHour + 1, twentyFourHours, twentyFourHours + 1}

\* bodies the provider answers with (WeatherApiResponse); temp_c in hundredths
Payloads ==
    { [temp_c |-> 2125,  last_updated |-> 100, name |-> "London", region |-> "",              country |-> "UK"],
      [temp_c |-> 1835,  last_updated |-> 200, name |-> "Paris",  region |-> "Ile-de-France", country |-> "France"],
      [temp_c |-> 6000,  last_updated |-> 200, name |-> "Paris",  region |-> "Ile-de-France", country |-> "France"],
      [temp_c |-> -9000, last_updated |-> 100, name |-> "London", region |-> "",              country |-> "UK"],
      [temp_c |-> 6001,  last_updated |-> 200, name |-> "Paris",  region |-> "Ile-de-France", country |-> "France"],
      [temp_c |-> -9001, last_updated |-> 100, name |-> "London", region |-> "",              country |-> "UK"],
      [temp_c |-> 6100,  last_updated |-> 100, name |-> "London", region |-> "",              country |-> "UK"],
      [temp_c |-> -9100, last_updated |-> 200, name |-> "Paris",  region |-> "Ile-de-France", country |-> "France"] }

-----------------------------------------------------------------------------
(* Number.prototype.toFixed(1) followed by parseFloat *)

Abs(x) == IF x < 0 THEN -x ELSE x

\* The results of parseFloat((num/den).toFixed(1)), in hundredths, for the
\* quotient num/den of hundredths (den > 0).  toFixed takes the multiple of
\* 0.1 nearest to the double it is given.  When the decimal value lies
\* exactly between two of them the double decides: a value the double holds
\* exactly (exact = TRUE) goes away from zero, any other value lies a hair
\* to one side of the midpoint, and both neighbours are possible results.
toFixed1(num, den, exact) ==
    LET a     == Abs(num)
        sgn   == IF num < 0 THEN -1 ELSE 1
        down  == a \div (10 * den)               \* tenths, towards zero
        rest2 == 2 * (a - down * 10 * den)       \* twice the remainder
        mid   == 10 * den                        \* twice half a tenth
    IN  IF rest2 < mid THEN {sgn * 10 * down}
        ELSE IF rest2 > mid THEN {sgn * 10 * (down + 1)}
        ELSE IF exact THEN {sgn * 10 * (down + 1)}
        ELSE {sgn * 10 * down, sgn * 10 * (down + 1)}

\* a number of hundredths that a double holds exactly: a multiple of 0.25
IsExactDouble(v) == v % 25 = 0

-----------------------------------------------------------------------------
(* The pure parts of weatherService *)

Return(v) == [kind |-> "return", value |-> v, error |-> "none"]
Throw(e)  == [kind |-> "throw", value |-> null, error |-> e]

\* connectionStatus with the one-hour threshold compared by >= (mutant)
connectionStatusAtLeast(cacheAge) ==
    IF cacheAge > twentyFourHours THEN "outdated"
    ELSE IF cacheAge >= oneHour THEN "outdated"
    ELSE "offline"

\* lines 99-104: the status of a cached entry of the given age
connectionStatus(cacheAge) ==
    IF cacheAge > twentyFourHours THEN "outdated"
    ELSE IF cacheAge > oneHour THEN "outdated"
    ELSE "offline"

\* getCachedWeatherData returning the entry with its stored status (mutant)
getCachedWeatherDataStoredStatus(cache, t) ==
    IF cache = null
    THEN Throw("noCachedDataAvailable")
    ELSE Return(cache)

\* lines 86-110, on the slot `cache` at time `t`
getCachedWeatherData(cache, t) ==
    IF cache = null
    THEN Throw("noCachedDataAvailable")
    ELSE Return([cache EXCEPT !.connectionStatus = connectionStatus(t - cache.cachedAt)])

\* lines 148-150
hasCachedData(cache) == cache # null

\* InRange without the upper limit (mutant)
InRangeNoUpperLimit(temp_c) == ~(temp_c < -9000)

\* line 46, negated: the reading passes the plausibility check
InRange(temp_c) == ~(temp_c < -9000 \/ temp_c > 6000)

\* line 53
LocationOf(data) ==
    <<data.name, IF data.region # "" THEN data.region ELSE data.country>>

\* lines 50-56, with the temperature as toFixed(1) gave it
WeatherDataOf(data, temperature) ==
    [ temperature      |-> temperature,
      temperatureUnit  |-> "celsius",
      location         |-> LocationOf(data),
      lastUpdate       |-> data.last_updated,
      connectionStatus |-> "online" ]

\* CacheEntry updating the reading of the entry in place (mutant)
CacheEntryMerged(old, weatherData, t) ==
    IF old = null
    THEN [ temperature      |-> weatherData.temperature,
           temperatureUnit  |-> weatherData.temperatureUnit,
           location         |-> weatherData.location,
           lastUpdate       |-> weatherData.lastUpdate,
           connectionStatus |-> weatherData.connectionStatus,
           cachedAt         |-> t ]
    ELSE [old EXCEPT !.temperature = weatherData.temperature, !.cachedAt = t]

\* CacheEntry keeping the provider's timestamp of the entry it replaces (mutant)
CacheEntryKeepsLastUpdate(old, weatherData, t) ==
    [ temperature      |-> weatherData.temperature,
      temperatureUnit  |-> weatherData.temperatureUnit,
      location         |-> weatherData.location,
      lastUpdate       |-> IF old = null THEN weatherData.lastUpdate ELSE old.lastUpdate,
      connectionStatus |-> weatherData.connectionStatus,
      cachedAt         |-> t ]

\* lines 61-64: the entry the slot is overwritten with
CacheEntry(old, weatherData, t) ==
    [ temperature      |-> weatherData.temperature,
      temperatureUnit  |-> weatherData.temperatureUnit,
      location         |-> weatherData.location,
      lastUpdate       |-> weatherData.lastUpdate,
      connectionStatus |-> weatherData.connectionStatus,
      cachedAt         |-> t ]

\* convertTemperature forgetting the offset on the way back to celsius (mutant)
convertTemperatureNoOffset(value, from, to) ==
    IF from = to
    THEN toFixed1(value, 1, IsExactDouble(value))
    ELSE IF from = "celsius" /\ to = "fahrenheit"
    THEN toFixed1(value * 9 + 3200 * 5, 5, FALSE)
    ELSE toFixed1(value * 5, 9, FALSE)

\* convertTemperature with the factor 5/9 on the way to fahrenheit (mutant)
convertTemperatureWrongFactor(value, from, to) ==
    IF from = to
    THEN toFixed1(value, 1, IsExactDouble(value))
    ELSE IF from = "celsius" /\ to = "fahrenheit"
    THEN toFixed1(value * 5 + 3200 * 9, 9, FALSE)
    ELSE IF from = "fahrenheit" /\ to = "celsius"
    THEN toFixed1((value - 3200) * 5, 9, FALSE)
    ELSE toFixed1(value, 1, IsExactDouble(value))

\* lines 120-139: the possible results of convertTemperature, in hundredths
convertTemperature(value, from, to) ==
    IF from = to
    THEN toFixed1(value, 1, IsExactDouble(value))
    ELSE IF from = "celsius" /\ to = "fahrenheit"
    THEN toFixed1(value * 9 + 3200 * 5, 5, FALSE)
    ELSE IF from = "fahrenheit" /\ to = "celsius"
    THEN toFixed1((value - 3200) * 5, 9, FALSE)
    ELSE toFixed1(value, 1, IsExactDouble(value))

-----------------------------------------------------------------------------
(* The pure parts of the weather controller and of the error middleware *)

\* an HTTP answer: res.status(status).json(body)
Respond(status, body) == [status |-> status, body |-> body]

\* utils/response successResponse, at time t
successResponse(data, t) ==
    [success |-> TRUE, data |-> data, error |-> "none", timestamp |-> t]

\* utils/response errorResponse, at time t
errorResponse(message, t) ==
    [success |-> FALSE, data |-> null, error |-> message, timestamp |-> t]

\* middleware/error errorMiddleware on a plain Error: it has no statusCode
errorMiddleware(message, t) ==
    Respond(500, [success |-> FALSE, data |-> null, error |-> message, timestamp |-> t])

\* getCurrentWeather answering without the conversion (mutant)
getCurrentWeatherUnconverted(unit, weatherData, t) ==
    {Respond(200, successResponse(weatherData, t))}

\* getCurrentWeather lines 129-149: the answers it may give for weatherData
\* when asked for unit
getCurrentWeatherAnswers(unit, weatherData, t) ==
    IF unit = "fahrenheit" /\ weatherData.temperatureUnit = "celsius"
    THEN { Respond(200, successResponse(
                [weatherData EXCEPT !.temperature = temperature,
                                    !.temperatureUnit = "fahrenheit"], t)) :
           temperature \in convertTemperature(weatherData.temperature,
                                              "celsius", "fahrenheit") }
    ELSE {Respond(200, successResponse(weatherData, t))}

\* refreshWeather answering 503 to every error it knows (mutant)
refreshWeatherAnswerAll503(outcome, t) ==
    IF outcome.kind = "return"
    THEN Respond(200, successResponse(outcome.value, t))
    ELSE IF outcome.error \in {"weatherApiRequestFailed", "temperatureOutOfRange"}
    THEN Respond(503, errorResponse("weatherApiRequestFailed", t))
    ELSE errorMiddleware(outcome.error, t)

\* refreshWeather lines 191-202: its answer to what fetchWeatherData gave
refreshWeatherAnswer(outcome, t) ==
    IF outcome.kind = "return"
    THEN Respond(200, successResponse(outcome.value, t))
    ELSE IF outcome.error = "weatherApiRequestFailed"
    THEN Respond(503, errorResponse("weatherApiRequestFailed", t))
    ELSE IF outcome.error = "temperatureOutOfRange"
    THEN Respond(400, errorResponse("temperatureOutOfRange", t))
    ELSE errorMiddleware(outcome.error, t)

\* the handler's weatherData being the entry of the slot itself (mutant)
SlotSharedWithCaller(cache, written) ==
    IF cache = null THEN null
    ELSE [cache EXCEPT !.temperature = written.temperature,
                       !.temperatureUnit = written.temperatureUnit]

\* The slot after a caller has assigned to the fields of a reading it was
\* given: fetchWeatherData stores a spread copy of what it returns (lines
\* 61-64) and getCachedWeatherData returns a spread copy of the slot (lines
\* 106-109), so `written`, the caller's object, is never the slot's.
SlotAfterCallerWrites(cache, written) == cache

-----------------------------------------------------------------------------
(* State *)

\* An invocation slot that is not in use.  Of a running invocation: pc is the
\* await it is suspended at, location what it was called with, requests the
\* upstream requests it has issued, handler the request handler awaiting it
\* ("none" for any other caller), unit the unit that handler was asked for,
\* sawSlot what the slot was when the invocation began ("empty" or
\* "populated"; "unobserved" where this is not followed), and error the error
\* the handler's catch block has been handed.
Idle ==
    [pc |-> "idle", location |-> "none", requests |-> 0,
     handler |-> "none", unit |-> "none", sawSlot |-> "unobserved",
     error |-> "none"]

\* the location held by a slot, <<>> for the empty slot
SlotLocation(cache) == IF cache = null THEN <<>> ELSE cache.location

\* ret after a step that completes no operation
Quiet ==
    [op |-> "none", call |-> 0, request |-> Idle, caught |-> "none", data |-> null,
     before |-> <<>>, kind |-> "none", value |-> null, error |-> "none"]

\* ret after operation `op` gave `outcome` (a Return or a Throw).  For
\* fetchWeatherData, call is the invocation and request what it stood at,
\* caught the error its catch block received ("none" when the try block ran to
\* its end) and data the provider's body when one was read.  before is the
\* location the slot held when the step began.
Ret(op, c, caught, data, outcome) ==
    [op |-> op, call |-> c, request |-> IF c \in CallIds THEN calls[c] ELSE Idle,
     caught |-> caught, data |-> data,
     before |-> SlotLocation(weatherCache),
     kind |-> outcome.kind, value |-> outcome.value, error |-> outcome.error]

Init ==
    /\ weatherCache = null
    /\ now = 0
    /\ calls = [c \in CallIds |-> Idle]
    /\ ret = Quiet

-----------------------------------------------------------------------------
(* fetchWeatherData, lines 28-76 *)

\* Catch without the fallback (mutant)
CatchRethrows(c, error, data) ==
    /\ ret' = Ret("fetchWeatherData", c, error, data, Throw(error))
    /\ calls' = [calls EXCEPT ![c] = Idle]
    /\ UNCHANGED <<weatherCache, now>>

\* Catch reading the cache without testing the slot (mutant)
CatchAlwaysReadsCache(c, error, data) ==
    /\ ret' = Ret("fetchWeatherData", c, error, data,
                  getCachedWeatherData(weatherCache, now))
    /\ calls' = [calls EXCEPT ![c] = Idle]
    /\ UNCHANGED <<weatherCache, now>>

\* Catch dropping the entry it has served (mutant)
CatchInvalidatesSlot(c, error, data) ==
    /\ ret' = Ret("fetchWeatherData", c, error, data,
                  IF weatherCache # null
                  THEN getCachedWeatherData(weatherCache, now)
                  ELSE Throw(error))
    /\ weatherCache' = null
    /\ calls' = [calls EXCEPT ![c] = Idle]
    /\ UNCHANGED now

\* Catch asking the provider once more before it gives up (mutant)
CatchRetries(c, error, data) ==
    IF calls[c].requests < 2
    THEN /\ calls' = [calls EXCEPT ![c].pc = "awaitFetch", ![c].requests = @ + 1]
         /\ ret' = Quiet
         /\ UNCHANGED <<weatherCache, now>>
    ELSE /\ ret' = Ret("fetchWeatherData", c, error, data,
                       IF weatherCache # null
                       THEN getCachedWeatherData(weatherCache, now)
                       ELSE Throw(error))
         /\ calls' = [calls EXCEPT ![c] = Idle]
         /\ UNCHANGED <<weatherCache, now>>

\* Catch deciding by what the slot was when the invocation began (mutant)
CatchDecidesAtStart(c, error, data) ==
    /\ ret' = Ret("fetchWeatherData", c, error, data,
                  IF calls[c].sawSlot = "populated"
                  THEN getCachedWeatherData(weatherCache, now)
                  ELSE Throw(error))
    /\ calls' = [calls EXCEPT ![c] = Idle]
    /\ UNCHANGED <<weatherCache, now>>

\* Catch falling back only on an entry of the location asked for (mutant)
CatchMatchesLocation(c, error, data) ==
    /\ ret' = Ret("fetchWeatherData", c, error, data,
                  IF weatherCache # null /\ weatherCache.location[1] = calls[c].location
                  THEN getCachedWeatherData(weatherCache, now)
                  ELSE Throw(error))
    /\ calls' = [calls EXCEPT ![c] = Idle]
    /\ UNCHANGED <<weatherCache, now>>

\* Invocation c ends with `outcome`, its own code leaving the slot as `slot`,
\* and the code awaiting it runs on.  A caller outside the controller takes the
\* outcome as it is.  getCurrentWeather (lines 116-149) and refreshWeather
\* (lines 191-202) answer the request from the outcome alone, except that the
\* catch block of getCurrentWeather reads the slot: that one runs as a step of
\* its own, GetCurrentWeatherCatch.
Complete(c, caught, data, outcome, slot) ==
    LET call == calls[c] IN
    /\ UNCHANGED now
    /\ IF call.handler = "getCurrentWeather" /\ outcome.kind = "return"
       THEN \E answer \in getCurrentWeatherAnswers(call.unit, outcome.value, now) :
               /\ ret' = Ret("getCurrentWeather", c, caught, data,
                             Return([fetched |-> outcome, answer |-> answer]))
               /\ weatherCache' = SlotAfterCallerWrites(slot, answer.body.data)
               /\ calls' = [calls EXCEPT ![c] = Idle]
       ELSE IF call.handler = "getCurrentWeather"
       THEN /\ ret' = Ret("fetchWeatherData", c, caught, data, outcome)
            /\ weatherCache' = slot
            /\ calls' = [calls EXCEPT ![c].pc = "handlerCatch",
                                      ![c].error = outcome.error]
       ELSE IF call.handler = "refreshWeather"
       THEN /\ ret' = Ret("refreshWeather", c, caught, data,
                          Return([fetched |-> outcome,
                                  answer |-> refreshWeatherAnswer(outcome, now)]))
            /\ weatherCache' = slot
            /\ calls' = [calls EXCEPT ![c] = Idle]
       ELSE /\ ret' = Ret("fetchWeatherData", c, caught, data, outcome)
            /\ weatherCache' = slot
            /\ calls' = [calls EXCEPT ![c] = Idle]

\* lines 67-75: the catch block, run on `error` for invocation c
Catch(c, error, data) ==
    Complete(c, error, data,
             IF weatherCache # null
             THEN getCachedWeatherData(weatherCache, now)
             ELSE Throw(error),
             weatherCache)

\* FetchStart dropping the entry it is about to refresh (mutant)
FetchStartInvalidates(c, location, handler, unit, sawSlot) ==
    /\ calls[c].pc = "idle"
    /\ calls' = [calls EXCEPT ![c] =
                    [pc |-> "awaitFetch", location |-> location,
                     requests |-> calls[c].requests + 1,
                     handler |-> handler, unit |-> unit, sawSlot |-> sawSlot,
                     error |-> "none"]]
    /\ weatherCache' = null
    /\ ret' = Quiet
    /\ UNCHANGED now

\* lines 28-34: the call builds the request and suspends at await fetch(...)
FetchStart(c, location, handler, unit, sawSlot) ==
    /\ calls[c].pc = "idle"
    /\ calls' = [calls EXCEPT ![c] =
                    [pc |-> "awaitFetch", location |-> location,
                     requests |-> calls[c].requests + 1,
                     handler |-> handler, unit |-> unit, sawSlot |-> sawSlot,
                     error |-> "none"]]
    /\ ret' = Quiet
    /\ UNCHANGED <<weatherCache, now>>

\* line 30: fetch rejects (no connection, DNS failure, reset)
FetchRejects(c) ==
    /\ calls[c].pc = "awaitFetch"
    /\ Catch(c, "fetchFailed", null)

\* lines 36-38: the provider answered with a non-success status
ResponseNotOk(c) ==
    /\ calls[c].pc = "awaitFetch"
    /\ Catch(c, "weatherApiRequestFailed", null)

\* lines 36-40: the status is a success; the call suspends at await response.json()
ResponseOk(c) ==
    /\ calls[c].pc = "awaitFetch"
    /\ calls' = [calls EXCEPT ![c].pc = "awaitJson"]
    /\ ret' = Quiet
    /\ UNCHANGED <<weatherCache, now>>

\* line 40: response.json() rejects (the body is not JSON)
JsonRejects(c) ==
    /\ calls[c].pc = "awaitJson"
    /\ Catch(c, "invalidJson", null)

\* line 46: the body has no `current` object, reading temp_c throws a TypeError
BodyMalformed(c) ==
    /\ calls[c].pc = "awaitJson"
    /\ Catch(c, "typeError", null)

\* lines 46-48: the reading fails the plausibility check
TemperatureOutOfRange(c) ==
    /\ calls[c].pc = "awaitJson"
    /\ \E data \in Payloads :
          /\ ~InRange(data.temp_c)
          /\ Catch(c, "temperatureOutOfRange", data)

\* lines 46-66: the reading passes, the slot is overwritten and the reading returned
FetchSucceeds(c) ==
    /\ calls[c].pc = "awaitJson"
    /\ \E data \in Payloads :
          /\ InRange(data.temp_c)
          /\ \E temperature \in toFixed1(data.temp_c, 1, IsExactDouble(data.temp_c)) :
                LET weatherData == WeatherDataOf(data, temperature) IN
                Complete(c, "none", data, Return(weatherData),
                         CacheEntry(weatherCache, weatherData, now))

-----------------------------------------------------------------------------
(* The weather controller: getCurrentWeather and refreshWeather *)

\* getCurrentWeather answering 503 without looking at the cache (mutant)
GetCurrentWeatherCatchNoCache(c) ==
    /\ calls[c].pc = "handlerCatch"
    /\ ret' = Ret("getCurrentWeather", c, calls[c].error, null,
                  Return([fetched |-> Throw(calls[c].error),
                          answer |-> Respond(503, errorResponse("weatherApiRequestFailed", now))]))
    /\ calls' = [calls EXCEPT ![c] = Idle]
    /\ UNCHANGED <<weatherCache, now>>

\* getCurrentWeather lines 117-149: fetchWeatherData has thrown, the handler's
\* catch block runs and the request is answered
GetCurrentWeatherCatch(c) ==
    /\ calls[c].pc = "handlerCatch"
    /\ \E answer \in
          IF hasCachedData(weatherCache)
          THEN getCurrentWeatherAnswers(calls[c].unit,
                                        getCachedWeatherData(weatherCache, now).value, now)
          ELSE {Respond(503, errorResponse("weatherApiRequestFailed", now))} :
          /\ ret' = Ret("getCurrentWeather", c, calls[c].error, null,
                        Return([fetched |-> Throw(calls[c].error), answer |-> answer]))
          /\ weatherCache' = IF hasCachedData(weatherCache)
                             THEN SlotAfterCallerWrites(weatherCache, answer.body.data)
                             ELSE weatherCache
    /\ calls' = [calls EXCEPT ![c] = Idle]
    /\ UNCHANGED now

\* getCurrentWeather lines 96-108 and refreshWeather lines 183-186: a request
\* without a location, or for a unit that does not exist, is refused
RequestRefused(handler, message) ==
    /\ ret' = Ret(handler, 0, "none", null,
                  Return([fetched |-> Throw("none"),
                          answer |-> Respond(400, errorResponse(message, now))]))
    /\ UNCHANGED <<weatherCache, now, calls>>

-----------------------------------------------------------------------------
(* The synchronous operations, each called by some caller of the module *)

\* getCachedWeatherData writing the status it derived into the slot (mutant)
GetCachedWeatherDataCallStoresStatus ==
    /\ ret' = Ret("getCachedWeatherData", 0, "none", null,
                  getCachedWeatherData(weatherCache, now))
    /\ weatherCache' = IF weatherCache = null THEN null
                       ELSE getCachedWeatherData(weatherCache, now).value
    /\ UNCHANGED <<now, calls>>

\* lines 86-110
GetCachedWeatherDataCall ==
    /\ ret' = Ret("getCachedWeatherData", 0, "none", null,
                  getCachedWeatherData(weatherCache, now))
    /\ UNCHANGED <<weatherCache, now, calls>>

\* lines 148-150
HasCachedDataCall ==
    /\ ret' = Ret("hasCachedData", 0, "none", null, Return(hasCachedData(weatherCache)))
    /\ UNCHANGED <<weatherCache, now, calls>>

\* clearCache leaving the slot as it is (mutant)
ClearCacheCallKeepsSlot ==
    /\ ret' = Ret("clearCache", 0, "none", null, Return(null))
    /\ UNCHANGED <<weatherCache, now, calls>>

\* lines 158-160
ClearCacheCall ==
    /\ weatherCache' = null
    /\ ret' = Ret("clearCache", 0, "none", null, Return(null))
    /\ UNCHANGED <<now, calls>>

\* lines 120-139, called with {value, from, to}.  chain is <<>>, or <<v>> when
\* value is what converting v the other way gave.
ConvertTemperatureCall(value, from, to, chain) ==
    /\ \E result \in convertTemperature(value, from, to) :
          ret' = Ret("convertTemperature", 0, "none",
                     [value |-> value, from |-> from, to |-> to, chain |-> chain],
                     Return(result))
    /\ UNCHANGED <<weatherCache, now, calls>>

\* time passes between two steps
Tick ==
    /\ \E t \in Instants : t > now /\ now' = t
    /\ ret' = Quiet
    /\ UNCHANGED <<weatherCache, calls>>

\* values the service's callers convert while the cache is in use
SomeValues == {2135}

Next ==
    \/ \E c \in CallIds, location \in Locations :
          FetchStart(c, location, "none", "none", "unobserved")
    \/ \E c \in CallIds : FetchRejects(c)
    \/ \E c \in CallIds : ResponseNotOk(c)
    \/ \E c \in CallIds : ResponseOk(c)
    \/ \E c \in CallIds : JsonRejects(c)
    \/ \E c \in CallIds : BodyMalformed(c)
    \/ \E c \in CallIds : TemperatureOutOfRange(c)
    \/ \E c \in CallIds : FetchSucceeds(c)
    \/ GetCachedWeatherDataCall
    \/ HasCachedDataCall
    \/ ClearCacheCall
    \/ \E value \in SomeValues, from \in Units, to \in Units :
          ConvertTemperatureCall(value, from, to, <<>>)
    \/ Tick

Spec == Init /\ [][Next]_vars

\* the provider answers the request of invocation c, one way or another
UpstreamAnswers(c) == FetchRejects(c) \/ ResponseNotOk(c) \/ ResponseOk(c)

\* the body of the answer to invocation c arrives, or fails to
BodyArrives(c) ==
    JsonRejects(c) \/ BodyMalformed(c) \/ TemperatureOutOfRange(c) \/ FetchSucceeds(c)

\* the steps of the invocations, and clearCache, which decides which way
\* their catch block goes; the reads and the clock, which no invocation waits
\* for, are left out
NextLive ==
    \/ \E c \in CallIds, location \in Locations :
          FetchStart(c, location, "none", "none", "unobserved")
    \/ \E c \in CallIds : UpstreamAnswers(c)
    \/ \E c \in CallIds : BodyArrives(c)
    \/ ClearCacheCall

\* the service where every upstream request completes: fetch(...) settles, and
\* so does response.json(), and Node then runs the continuation
SpecLive ==
    /\ Init
    /\ [][NextLive]_vars
    /\ \A c \in CallIds : WF_vars(UpstreamAnswers(c)) /\ WF_vars(BodyArrives(c))

\* the invocations made by the request that is followed; the other
\* invocations are those of the requests around it, which reach the slot
\* through fetchWeatherData all the same
Requests == {c \in CallIds : \A d \in CallIds : c <= d}

\* the controller serving a request, with other invocations and clearCache
\* running between its steps, and the clock passing the first hour
NextApi ==
    \/ \E c \in Requests, location \in Locations, unit \in Units :
          FetchStart(c, location, "getCurrentWeather", unit, "unobserved")
    \/ \E c \in Requests, location \in Locations :
          FetchStart(c, location, "refreshWeather", "none", "unobserved")
    \/ \E c \in CallIds \ Requests, location \in Locations :
          FetchStart(c, location, "none", "none", "unobserved")
    \/ \E c \in CallIds : UpstreamAnswers(c)
    \/ \E c \in CallIds : BodyArrives(c)
    \/ \E c \in Requests : GetCurrentWeatherCatch(c)
    \/ RequestRefused("getCurrentWeather", "locationRequired")
    \/ RequestRefused("getCurrentWeather", "invalidUnit")
    \/ RequestRefused("refreshWeather", "locationRequired")
    \/ ClearCacheCall
    \/ Tick /\ now' = oneHour + 1

SpecApi == Init /\ [][NextApi]_vars

\* what the slot is, as an invocation that begins now sees it
SlotSeen == IF weatherCache = null THEN "empty" ELSE "populated"

\* the invocations with clearCache running between their steps, each one
\* carrying what the slot was when it began
NextRace ==
    \/ \E c \in CallIds, location \in Locations :
          FetchStart(c, location, "none", "none", SlotSeen)
    \/ \E c \in CallIds : UpstreamAnswers(c)
    \/ \E c \in CallIds : BodyArrives(c)
    \/ ClearCacheCall

SpecRace == Init /\ [][NextRace]_vars

-----------------------------------------------------------------------------
(* convertTemperature on its own: every value of a range, every pair of    *)
(* units, and the result converted back                                    *)

ConvValues == (-ConvLow)..ConvHigh

\* a caller is about to convert some value between some units
InitConv ==
    /\ weatherCache = null
    /\ now = 0
    /\ calls = [c \in CallIds |-> Idle]
    /\ \E value \in ConvValues, from \in Units, to \in Units :
          ret = [Quiet EXCEPT !.op = "request",
                              !.data = [value |-> value, from |-> from, to |-> to,
                                        chain |-> <<>>]]

\* the caller's conversion
ConvertRequested ==
    /\ ret.op = "request"
    /\ ConvertTemperatureCall(ret.data.value, ret.data.from, ret.data.to, <<>>)

\* the result of a conversion between the two units is converted back
ConvertBack ==
    /\ ret.op = "convertTemperature"
    /\ ret.data.chain = <<>>
    /\ ret.data.from # ret.data.to
    /\ ConvertTemperatureCall(ret.value, ret.data.to, ret.data.from, <<ret.data.value>>)

NextConv == ConvertRequested \/ ConvertBack

SpecConv == InitConv /\ [][NextConv]_vars

-----------------------------------------------------------------------------
(* Properties of the fallback and of the cache slot *)

\* the step just taken completed a fetchWeatherData invocation
FetchDone == ret.op = "fetchWeatherData"
\* ... through its catch block
FetchFailed == FetchDone /\ ret.caught # "none"
\* ... through the end of its try block
FetchFresh == FetchDone /\ ret.caught = "none"

\* C1 Fallback correctness: a fetchWeatherData call that fails, for whatever
\* reason, while the slot is populated does not throw: it returns the slot's
\* content with connectionStatus replaced by offline or outdated.
FallbackCorrectness ==
    (FetchFailed /\ weatherCache # null) =>
        /\ ret.kind = "return"
        /\ ret.value.connectionStatus \in {"offline", "outdated"}
        /\ ret.value = [weatherCache EXCEPT !.connectionStatus = ret.value.connectionStatus]

\* an out-of-range reading was answered from a slot older than an hour
FallbackWitness ==
    /\ FetchDone
    /\ ret.caught = "temperatureOutOfRange"
    /\ ret.kind = "return"
    /\ ret.value.connectionStatus = "outdated"

\* C2 No-cache propagation: a fetchWeatherData call that fails while the slot
\* is empty returns nothing and throws the very error that made it fail, never
\* noCachedDataAvailable, and the slot is still empty afterwards.
NoCachePropagation ==
    (FetchFailed /\ ret.before = <<>>) =>
        /\ ret.kind = "throw"
        /\ ret.error = ret.caught
        /\ ret.error # "noCachedDataAvailable"
        /\ weatherCache = null

\* a non-success status was propagated from an empty slot
NoCacheWitness ==
    /\ FetchDone
    /\ ret.kind = "throw"
    /\ ret.error = "weatherApiRequestFailed"
    /\ weatherCache = null

Plausible(t) == -9000 <= t /\ t <= 6000

\* C3 Range validation: a reading below -90 or above 60 makes the call fail
\* with temperatureOutOfRange, so it is neither returned nor cached; -90 and 60
\* themselves are accepted; and a populated slot always holds a temperature
\* within [-90, 60].
RangeValidation ==
    /\ weatherCache # null => Plausible(weatherCache.temperature)
    /\ (FetchDone /\ ret.data # null) =>
          /\ ~Plausible(ret.data.temp_c) =>
                /\ ret.caught = "temperatureOutOfRange"
                /\ ret.kind = "return" =>
                      /\ ret.value.connectionStatus # "online"
                      /\ Plausible(ret.value.temperature)
          /\ ret.data.temp_c \in {-9000, 6000} =>
                /\ ret.caught = "none"
                /\ ret.value.temperature = ret.data.temp_c
                /\ weatherCache.temperature = ret.data.temp_c

\* 60.01 was refused while the slot held the boundary value 60
RangeWitness ==
    /\ FetchDone
    /\ ret.data # null
    /\ ret.data.temp_c = 6001
    /\ ret.caught = "temperatureOutOfRange"
    /\ weatherCache # null
    /\ weatherCache.temperature = 6000

\* C4 Cache age thresholds: on a populated slot getCachedWeatherData returns
\* offline when the entry is at most one hour old (exactly one hour included)
\* and outdated when it is older, below and above 24 hours alike; it never
\* returns online.
CacheAgeThresholds ==
    (ret.op = "getCachedWeatherData" /\ weatherCache # null) =>
        LET age == now - weatherCache.cachedAt IN
        /\ ret.kind = "return"
        /\ age <= 3600000 => ret.value.connectionStatus = "offline"
        /\ age > 3600000 => ret.value.connectionStatus = "outdated"
        /\ ret.value.connectionStatus # "online"

\* an entry exactly one hour old was read
CacheAgeWitness ==
    /\ ret.op = "getCachedWeatherData"
    /\ weatherCache # null
    /\ now - weatherCache.cachedAt = 3600000
    /\ ret.value.connectionStatus = "offline"

\* C5 Overwrite semantics: after a successful fetchWeatherData every field of
\* the slot comes from that call (the provider's body and the current time),
\* none from the entry that was there before.
OverwriteSemantics ==
    FetchFresh =>
        /\ weatherCache # null
        /\ DOMAIN weatherCache = {"temperature", "temperatureUnit", "location",
                                  "lastUpdate", "connectionStatus", "cachedAt"}
        /\ weatherCache.temperature % 10 = 0
        /\ Abs(weatherCache.temperature - ret.data.temp_c) <= 5
        /\ weatherCache.temperatureUnit = "celsius"
        /\ weatherCache.location =
              <<ret.data.name,
                IF ret.data.region = "" THEN ret.data.country ELSE ret.data.region>>
        /\ weatherCache.lastUpdate = ret.data.last_updated
        /\ weatherCache.connectionStatus = "online"
        /\ weatherCache.cachedAt = now

\* a successful fetch replaced the entry of another location
OverwriteWitness ==
    /\ FetchFresh
    /\ ret.before # <<>>
    /\ ret.before # weatherCache.location
    /\ weatherCache.lastUpdate = 200

\* C6 Explicit clear: clearCache can be called in every state, returns
\* normally and leaves the slot empty; on an empty slot hasCachedData returns
\* false and getCachedWeatherData throws noCachedDataAvailable; and an empty
\* slot stays empty until a fetchWeatherData call succeeds.
ExplicitClear ==
    /\ [](ENABLED ClearCacheCall)
    /\ [][ /\ ret'.op = "clearCache" => (weatherCache' = null /\ ret'.kind = "return")
           /\ (weatherCache = null /\ ret'.op = "hasCachedData") => ret'.value = FALSE
           /\ (weatherCache = null /\ ret'.op = "getCachedWeatherData") =>
                 (ret'.kind = "throw" /\ ret'.error = "noCachedDataAvailable")
           /\ (weatherCache = null /\ weatherCache' # null) =>
                 (ret'.op = "fetchWeatherData" /\ ret'.caught = "none") ]_vars

\* clearCache emptied a populated slot
ExplicitClearWitness ==
    /\ ret.op = "clearCache"
    /\ ret.before # <<>>
    /\ weatherCache = null

\* C7 as stated: none of getCachedWeatherData, hasCachedData,
\* convertTemperature and clearCache changes the slot's content.
OnlyFetchMutates ==
    [][ ret'.op \in {"getCachedWeatherData", "hasCachedData",
                     "convertTemperature", "clearCache"}
            => weatherCache' = weatherCache ]_vars

\* C7 amended: fetchWeatherData is the only operation that writes a reading
\* into the slot, and it does so only when it succeeds; getCachedWeatherData,
\* hasCachedData and convertTemperature leave the slot as it is, and clearCache
\* changes it only by emptying it.
OnlyFetchWrites ==
    [][ /\ ret'.op \in {"getCachedWeatherData", "hasCachedData", "convertTemperature"}
              => weatherCache' = weatherCache
        /\ ret'.op = "clearCache" => weatherCache' = null
        /\ weatherCache' # weatherCache =>
              \/ ret'.op = "clearCache"
              \/ ret'.op = "fetchWeatherData" /\ ret'.caught = "none"
        /\ (weatherCache' # weatherCache /\ weatherCache' # null) =>
              (ret'.op = "fetchWeatherData" /\ ret'.caught = "none") ]_vars

\* a successful fetch populated the empty slot
OnlyFetchWritesWitness ==
    /\ FetchFresh
    /\ ret.before = <<>>
    /\ weatherCache # null

\* C8 Status provenance: a reading returned by fetchWeatherData is online
\* exactly when that call ran to the end of its try block, and then the slot
\* holds that reading; a returned reading that is offline or outdated is the
\* slot's content, given by the fallback or by getCachedWeatherData.
StatusProvenance ==
    /\ (FetchDone /\ ret.kind = "return") =>
          /\ ret.value.connectionStatus = "online" <=> ret.caught = "none"
          /\ ret.caught = "none" =>
                weatherCache = [ temperature      |-> ret.value.temperature,
                                 temperatureUnit  |-> ret.value.temperatureUnit,
                                 location         |-> ret.value.location,
                                 lastUpdate       |-> ret.value.lastUpdate,
                                 connectionStatus |-> "online",
                                 cachedAt         |-> now ]
    /\ (ret.op \in {"fetchWeatherData", "getCachedWeatherData"} /\ ret.kind = "return") =>
          /\ ret.value.connectionStatus \in {"online", "offline", "outdated"}
          /\ ret.value.connectionStatus # "online" =>
                /\ ret.op = "getCachedWeatherData" \/ FetchFailed
                /\ weatherCache # null
                /\ ret.value = [weatherCache EXCEPT
                                  !.connectionStatus = ret.value.connectionStatus]
          /\ ret.op = "getCachedWeatherData" => ret.value.connectionStatus # "online"

\* a refused connection was answered from a slot at most an hour old
StatusProvenanceWitness ==
    /\ FetchDone
    /\ ret.caught = "fetchFailed"
    /\ ret.kind = "return"
    /\ ret.value.connectionStatus = "offline"

\* C9 Reads are pure: getCachedWeatherData, whether it returns or throws,
\* hasCachedData and convertTemperature leave the slot, its cachedAt and its
\* stored connectionStatus included, exactly as it was; and so does the read
\* that the fallback of a failed fetchWeatherData makes.
ReadsArePure ==
    [][ (\/ ret'.op \in {"getCachedWeatherData", "hasCachedData", "convertTemperature"}
         \/ ret'.op = "fetchWeatherData" /\ ret'.caught # "none")
            => /\ weatherCache' = weatherCache
               /\ weatherCache # null =>
                     /\ weatherCache'.cachedAt = weatherCache.cachedAt
                     /\ weatherCache'.connectionStatus = weatherCache.connectionStatus ]_vars

\* an entry older than an hour was read as outdated and is still stored online
ReadsArePureWitness ==
    /\ ret.op = "getCachedWeatherData"
    /\ ret.kind = "return"
    /\ ret.value.connectionStatus = "outdated"
    /\ weatherCache.connectionStatus = "online"
    /\ weatherCache.cachedAt < now

-----------------------------------------------------------------------------
(* Properties of convertTemperature *)

\* C10 Conversion round trip: with from equal to to, convertTemperature
\* returns the value rounded to one decimal (a multiple of 0.1 at most 0.05
\* away); and a value converted from celsius to fahrenheit and back to celsius
\* comes back at most 0.1 away from where it started.
ConversionRoundTrip ==
    ret.op = "convertTemperature" =>
        /\ ret.data.from = ret.data.to =>
              /\ ret.value % 10 = 0
              /\ Abs(ret.value - ret.data.value) <= 5
        /\ (ret.data.chain # <<>> /\ ret.data.to = "celsius") =>
              Abs(ret.value - ret.data.chain[1]) <= 10

\* a round trip from celsius that came back to another value than it left from
ConversionRoundTripWitness ==
    /\ ret.op = "convertTemperature"
    /\ ret.data.chain # <<>>
    /\ ret.data.from = "fahrenheit"
    /\ ret.data.to = "celsius"
    /\ ret.value # ret.data.chain[1]

\* C11 Conversion formulas: convertTemperature returns for every value and
\* every pair of units: from celsius to fahrenheit the multiple of 0.1 nearest
\* to value*9/5+32, from fahrenheit to celsius the one nearest to
\* (value-32)*5/9; it never throws; and 0 C gives 32.0 F, 100 C gives 212.0 F
\* and 32 F gives 0.0 C.
ConversionFormulas ==
    /\ ret.op = "request" => ENABLED ConvertRequested
    /\ ret.op = "convertTemperature" =>
          LET value == ret.data.value
              from  == ret.data.from
              to    == ret.data.to
          IN
          /\ ret.kind = "return"
          /\ ret.value % 10 = 0
          /\ (from = "celsius" /\ to = "fahrenheit") =>
                /\ Abs(5 * ret.value - (9 * value + 16000)) <= 25
                /\ value = 0 => ret.value = 3200
                /\ value = 10000 => ret.value = 21200
          /\ (from = "fahrenheit" /\ to = "celsius") =>
                /\ Abs(9 * ret.value - 5 * (value - 3200)) <= 45
                /\ value = 3200 => ret.value = 0

\* 100 C was converted to 212.0 F
ConversionFormulasWitness ==
    /\ ret.op = "convertTemperature"
    /\ ret.data.value = 10000
    /\ ret.data.from = "celsius"
    /\ ret.data.to = "fahrenheit"
    /\ ret.value = 21200

-----------------------------------------------------------------------------
(* Properties of the slot over time and under concurrent invocations *)

\* C12 Slot state machine: the slot starts empty; it goes from empty to
\* populated only in a step in which a fetchWeatherData call succeeds and from
\* populated to empty only in a clearCache step; a fetchWeatherData call that
\* fails, with or without fallback, leaves the slot exactly as it was.
SlotStateMachine ==
    /\ weatherCache = null
    /\ [][ /\ (weatherCache = null /\ weatherCache' # null) =>
                 (ret'.op = "fetchWeatherData" /\ ret'.caught = "none")
           /\ (weatherCache # null /\ weatherCache' = null) => ret'.op = "clearCache"
           /\ (ret'.op = "fetchWeatherData" /\ ret'.caught # "none") =>
                 weatherCache' = weatherCache
           /\ (ret'.op = "fetchWeatherData" /\ ret'.caught = "none") =>
                 weatherCache' # null ]_vars

\* a call that could not parse the body fell back and the slot is still there
SlotStateMachineWitness ==
    /\ FetchDone
    /\ ret.caught = "invalidJson"
    /\ ret.kind = "return"
    /\ weatherCache # null

\* e is an entry as one single successful fetch writes it
IsWholeEntry(e) ==
    /\ DOMAIN e = {"temperature", "temperatureUnit", "location",
                   "lastUpdate", "connectionStatus", "cachedAt"}
    /\ e.cachedAt \in Instants
    /\ e.cachedAt <= now
    /\ e.temperatureUnit = "celsius"
    /\ e.connectionStatus = "online"
    /\ \E d \in Payloads :
          /\ Plausible(d.temp_c)
          /\ e.temperature % 10 = 0
          /\ Abs(e.temperature - d.temp_c) <= 5
          /\ e.location = <<d.name, IF d.region = "" THEN d.country ELSE d.region>>
          /\ e.lastUpdate = d.last_updated

\* C13 No torn overwrite: however concurrent fetchWeatherData calls interleave
\* at their await points, the slot is either empty or one complete entry
\* written by one successful fetch, and a reading returned by a fallback is a
\* copy of such an entry (the one in the slot) with only its status replaced.
NoTornOverwrite ==
    /\ weatherCache # null => IsWholeEntry(weatherCache)
    /\ (FetchFailed /\ ret.kind = "return") =>
          /\ IsWholeEntry([ret.value EXCEPT !.connectionStatus = "online"])
          /\ ret.value = [weatherCache EXCEPT
                            !.connectionStatus = ret.value.connectionStatus]

\* a fetch overwrote the entry of another location while another invocation
\* was waiting for its body
NoTornOverwriteWitness ==
    /\ FetchFresh
    /\ ret.before # <<>>
    /\ ret.before # weatherCache.location
    /\ \E c \in CallIds : calls[c].pc = "awaitJson"

\* C14 No retries: an invocation issues its one upstream request when it
\* starts and never another; the step in which that request fails is the step
\* in which the invocation returns the fallback or throws; and, the upstream
\* request completing, every invocation comes to its end.
NoRetries ==
    /\ [](\A c \in CallIds : calls[c].requests <= 1)
    /\ [][ \A c \in CallIds :
             /\ calls'[c].requests > calls[c].requests => calls[c].pc = "idle"
             /\ (calls[c].pc # "idle" /\ calls'[c].pc # calls[c].pc) =>
                   \/ calls[c].pc = "awaitFetch" /\ calls'[c].pc = "awaitJson"
                                                 /\ ret'.op = "none"
                   \/ /\ calls'[c].pc = "idle"
                      /\ ret'.op = "fetchWeatherData"
                      /\ ret'.call = c
                      /\ ret'.request.requests = 1
                      /\ ret'.kind \in {"return", "throw"}
             /\ (ret'.op = "fetchWeatherData" /\ ret'.call = c /\ ret'.caught # "none") =>
                   /\ calls[c].pc \in {"awaitFetch", "awaitJson"}
                   /\ calls'[c].pc = "idle" ]_vars
    /\ \A c \in CallIds : (calls[c].pc # "idle") ~> (calls[c].pc = "idle")

\* an invocation ended with the fallback on the non-success status of its one request
NoRetriesWitness ==
    /\ FetchDone
    /\ ret.caught = "weatherApiRequestFailed"
    /\ ret.kind = "return"
    /\ ret.request.requests = 1
    /\ calls[ret.call].pc = "idle"

\* C18 Fallback decision time: a failing fetchWeatherData call returns the
\* fallback exactly when the slot is populated as its catch block runs, and
\* throws the error it caught exactly when the slot is empty then, whatever the
\* slot was when the call began.
FallbackDecisionTime ==
    FetchFailed =>
        /\ ret.request.sawSlot \in {"empty", "populated"}
        /\ ret.kind = "return" <=> ret.before # <<>>
        /\ ret.kind = "throw" <=> ret.before = <<>>
        /\ ret.kind = "throw" => ret.error = ret.caught
        /\ ret.kind = "return" =>
              ret.value = [weatherCache EXCEPT
                             !.connectionStatus = ret.value.connectionStatus]

\* a call that began on an empty slot returned what another call cached meanwhile
FallbackDecisionTimeWitness ==
    /\ FetchFailed
    /\ ret.request.sawSlot = "empty"
    /\ ret.kind = "return"
    /\ weatherCache # null

\* C19 Fallback ignores the requested location: a failing fetchWeatherData
\* call returns the slot's content whenever the slot is populated, with only
\* connectionStatus replaced, also when the slot holds another location than
\* the one the call asked for.
FallbackIgnoresLocation ==
    (FetchFailed /\ ret.before # <<>>) =>
        /\ ret.kind = "return"
        /\ weatherCache # null
        /\ DOMAIN ret.value = DOMAIN weatherCache
        /\ \A f \in DOMAIN weatherCache \ {"connectionStatus"} :
              ret.value[f] = weatherCache[f]
        /\ ret.value.location = ret.before

\* a call for London was answered with the entry of Paris
FallbackIgnoresLocationWitness ==
    /\ FetchFailed
    /\ ret.kind = "return"
    /\ ret.request.location = "London"
    /\ ret.value.location[1] = "Paris"

-----------------------------------------------------------------------------
(* The controller's answers *)

\* a request handled by getCurrentWeather has just been answered
ReadAnswered == ret.op = "getCurrentWeather" /\ ret.call \in CallIds
\* a request handled by refreshWeather has just been answered
RefreshAnswered == ret.op = "refreshWeather" /\ ret.call \in CallIds

\* C15 Read endpoint outcome: getCurrentWeather, given a valid location and
\* unit, answers 503 weatherApiRequestFailed exactly when fetchWeatherData threw
\* and the slot is empty when the handler checks hasCachedData; otherwise it
\* answers a success envelope carrying the fresh reading or the cached one, in
\* the requested unit, the celsius temperature converted when fahrenheit is
\* requested.
ReadEndpointOutcome ==
    ReadAnswered =>
        LET fetched == ret.value.fetched
            answer  == ret.value.answer
            unit    == ret.request.unit
        IN
        IF fetched.kind = "throw" /\ ret.before = <<>>
        THEN /\ answer.status = 503
             /\ ~answer.body.success
             /\ answer.body.error = "weatherApiRequestFailed"
        ELSE LET reading == IF fetched.kind = "return"
                            THEN fetched.value
                            ELSE getCachedWeatherData(weatherCache, now).value
                 data    == answer.body.data
             IN
             /\ answer.status = 200
             /\ answer.body.success
             /\ IF fetched.kind = "return" /\ ret.caught = "none"
                THEN /\ reading.connectionStatus = "online"
                     /\ reading.location = LocationOf(ret.data)
                     /\ reading.lastUpdate = ret.data.last_updated
                ELSE /\ reading.connectionStatus \in {"offline", "outdated"}
                     /\ ret.before # <<>>
                     /\ reading.location = ret.before
             /\ data.temperatureUnit = unit
             /\ data.location = reading.location
             /\ data.lastUpdate = reading.lastUpdate
             /\ data.connectionStatus = reading.connectionStatus
             /\ unit = "celsius" => data.temperature = reading.temperature
             /\ unit = "fahrenheit" =>
                   /\ data.temperature % 10 = 0
                   /\ Abs(5 * data.temperature - (9 * reading.temperature + 16000)) <= 25

\* fetchWeatherData threw on an empty slot, another invocation filled the slot
\* before the handler's catch block ran, and the request for fahrenheit was
\* answered from it
ReadEndpointWitness ==
    /\ ReadAnswered
    /\ ret.value.fetched.kind = "throw"
    /\ ret.before # <<>>
    /\ ret.request.unit = "fahrenheit"
    /\ ret.value.answer.status = 200
    /\ ret.value.answer.body.data.temperatureUnit = "fahrenheit"

\* C16 Refresh endpoint outcome: refreshWeather, given a valid location,
\* answers a success envelope whenever fetchWeatherData returns, the offline or
\* outdated reading of a populated slot after an upstream failure included;
\* when fetchWeatherData throws, the slot being empty, it answers 503
\* weatherApiRequestFailed to a non-success upstream status and 400
\* temperatureOutOfRange to an out-of-range reading, and never a success
\* envelope.
RefreshEndpointOutcome ==
    RefreshAnswered =>
        LET fetched == ret.value.fetched
            answer  == ret.value.answer
        IN
        /\ fetched.kind = "return" =>
              /\ answer.status = 200
              /\ answer.body.success
              /\ answer.body.data = fetched.value
        /\ (ret.caught # "none" /\ ret.before # <<>>) =>
              /\ fetched.kind = "return"
              /\ fetched.value.connectionStatus \in {"offline", "outdated"}
        /\ fetched.kind = "throw" =>
              /\ ret.caught # "none"
              /\ ret.before = <<>>
              /\ ~answer.body.success
              /\ answer.status # 200
              /\ ret.caught = "weatherApiRequestFailed" =>
                    /\ answer.status = 503
                    /\ answer.body.error = "weatherApiRequestFailed"
              /\ ret.caught = "temperatureOutOfRange" =>
                    /\ answer.status = 400
                    /\ answer.body.error = "temperatureOutOfRange"

\* an out-of-range reading met an empty slot and the refresh was answered 400
RefreshEndpointWitness ==
    /\ RefreshAnswered
    /\ ret.caught = "temperatureOutOfRange"
    /\ ret.before = <<>>
    /\ ret.value.answer.status = 400

\* C17 Cached entry invariant: in every reachable state a populated slot has
\* temperatureUnit celsius and stored connectionStatus online, also after
\* getCurrentWeather has converted a reading it was given to fahrenheit: the
\* handlers modify copies of the slot, never the slot.
CachedEntryInvariant ==
    weatherCache # null =>
        /\ weatherCache.temperatureUnit = "celsius"
        /\ weatherCache.connectionStatus = "online"

\* getCurrentWeather has answered in fahrenheit from the cached reading, and
\* the slot it read is still populated
CachedEntryWitness ==
    /\ ReadAnswered
    /\ ret.caught # "none"
    /\ ret.value.answer.status = 200
    /\ ret.value.answer.body.data.temperatureUnit = "fahrenheit"
    /\ ret.value.answer.body.data.connectionStatus = "outdated"
    /\ weatherCache # null

====
